---- MODULE Spec2Model ----
(***************************************************************************)
(* The Toggle component of the control-props / state-reducer examples      *)
(* (src/src/exercises-final/12.js and the provider-pattern file            *)
(* src/unnamed/part_000) and the control-props primer                      *)
(* (src/src/exercises/10-primer.js), as state machines.                    *)
(*                                                                         *)
(* Objects with a run-time key set (props, state, change records, the      *)
(* result of getTogglerProps) are functions with a domain of strings, so   *)
(* that hasOwnProperty, Object.keys and `!== undefined` are DOMAIN tests.  *)
(* this.setState(updater, callback) follows React's class-component        *)
(* contract: the update is queued, queued updaters run in call order each  *)
(* on the result of the previous one, the merged state is committed, and   *)
(* then the callbacks run in call order.                                   *)
(***************************************************************************)
EXTENDS Integers, Sequences, FiniteSets, TLC

VARIABLES variant,       \* which file the Toggle comes from
          props,         \* this.props of the Toggle (defaults merged in)
          initialState,  \* this.initialState
          state,         \* this.state
          pending,       \* queued setState updates, not yet processed
          nextId,        \* number of the next toggle()/reset() invocation
          log,           \* one record per processed invocation
          trace,         \* the observable events, in order
          togglerProps,  \* the last result of getTogglerProps, if any
          pState,        \* primer: this.state.on of the two Toggles
          bothOn,        \* primer: Usage's this.state.bothOn
          pPending,      \* primer: number of queued toggle updates of each Toggle
          pCalls         \* primer: arguments handleToggle was called with

vars == <<variant, props, initialState, state, pending, nextId, log, trace,
          togglerProps, pState, bothOn, pPending, pCalls>>
toggleVars == <<variant, props, initialState, state, pending, nextId, log,
                trace, togglerProps>>
primerVars == <<pState, bothOn, pPending, pCalls>>

\* Bounds of the model.
MaxCalls == 3
MaxPrimerCalls == 5

----------------------------------------------------------------------------
\* Values

Variants == {"hoc", "provider"}
StateKeys == {"on", "toggle", "reset", "getTogglerProps"}
HandleKeys == {"toggle", "reset", "getTogglerProps"}
Reducers == {"default", "alwaysOn", "typeOnly"}
CustomType == "custom"
ClickArgs == {"event1", "event2"}

stateChangeTypes == [reset |-> "__toggle_reset__", toggle |-> "__toggle_toggle__"]

defaultProps == [initialOn |-> FALSE, stateReducer |-> "default"]

\* f restricted to the keys in S
Restrict(f, S) == [k \in (DOMAIN f) \cap S |-> f[k]]

\* {...a, ...b}: the keys of both, b winning
Spread(a, b) == [k \in (DOMAIN a) \cup (DOMAIN b) |-> IF k \in DOMAIN b THEN b[k] ELSE a[k]]

----------------------------------------------------------------------------
\* Pure parts of Toggle

isControlled(p, prop) == prop \in DOMAIN p

\* a getState that forgets the controlling props
getState_internal(p, st) == st

getState(p, st) ==
  [key \in DOMAIN st |-> IF isControlled(p, key) THEN p[key] ELSE st[key]]

stateReducer(p, combinedState, changes) ==
  CASE p.stateReducer = "default" -> changes
    [] p.stateReducer = "alwaysOn" -> [on |-> TRUE, type |-> changes.type]
    [] p.stateReducer = "typeOnly" -> [type |-> changes.type]

\* a toggle updater that forgets the negation
resolveChanges_noNegate(u, init, combinedState) ==
  IF u.op = "toggle"
    THEN [type |-> u.type, on |-> combinedState.on]
    ELSE Spread(init, [type |-> stateChangeTypes.reset])

\* the `changes` argument of internalSetState, resolved against combinedState
resolveChanges(u, init, combinedState) ==
  IF u.op = "toggle"
    THEN [type |-> u.type, on |-> ~combinedState.on]
    ELSE Spread(init, [type |-> stateChangeTypes.reset])

\* an internalSetState that does not call the reducer
allChangesOf_skipReducer(p, init, st, u) ==
  resolveChanges(u, init, getState(p, st))

\* an internalSetState that stores allChanges after removing the controlled props
allChangesOf_filtered(p, init, st, u) ==
  LET combinedState == getState(p, st)
      c == stateReducer(p, combinedState, resolveChanges(u, init, combinedState))
  IN Restrict(c, {k \in DOMAIN c : ~isControlled(p, k)})

\* allChanges: what the reducer returns
allChangesOf(p, init, st, u) ==
  LET combinedState == getState(p, st)
  IN stateReducer(p, combinedState, resolveChanges(u, init, combinedState))

\* an internalSetState that writes the controlled props too
removeControlled_keepAll(p, st, c) ==
  LET combinedState == getState(p, st)
  IN [stateKey \in DOMAIN st |->
        IF stateKey \in DOMAIN c THEN c[stateKey] ELSE combinedState[stateKey]]

\* "remove the controlled props"
removeControlled(p, st, c) ==
  LET combinedState == getState(p, st)
  IN [stateKey \in {k \in DOMAIN st : ~isControlled(p, k)} |->
        IF stateKey \in DOMAIN c THEN c[stateKey] ELSE combinedState[stateKey]]

\* the updater passed to this.setState and React's merge of its result
applyUpdate(p, init, st, u) ==
  LET stateToSet == removeControlled(p, st, allChangesOf(p, init, st, u))
  IN IF DOMAIN stateToSet # {} THEN Spread(st, stateToSet) ELSE st

\* a queue in which every updater reads the state before the first one
processUpdateQueue_lost(p, init, st, q) ==
  IF q = <<>> THEN st ELSE applyUpdate(p, init, st, q[Len(q)])

RECURSIVE processUpdateQueue(_, _, _, _)
processUpdateQueue(p, init, st, q) ==
  IF q = <<>> THEN st
  ELSE processUpdateQueue(p, init, applyUpdate(p, init, st, Head(q)), Tail(q))

\* the argument the operation's callback passes to onToggle / onReset
callbackArg(v, p, st) ==
  IF v = "hoc"
    THEN [kind |-> "boolean", value |-> getState(p, st).on]
    ELSE [kind |-> "object", value |-> getState(p, st)]

callbackName(u) == IF u.op = "toggle" THEN "onToggle" ELSE "onReset"

Event(id, ev, arg) == [id |-> id, ev |-> ev, arg |-> arg]

\* events of the updaters of a queue, run in order starting from st
RECURSIVE updaterEvents(_, _, _, _)
updaterEvents(p, init, st, q) ==
  IF q = <<>> THEN <<>>
  ELSE LET u == Head(q)
           stateToSet == removeControlled(p, st, allChangesOf(p, init, st, u))
       IN <<Event(u.id, "stateReducer", "")>>
          \o (IF DOMAIN stateToSet # {} THEN <<Event(u.id, "setState", "")>> ELSE <<>>)
          \o updaterEvents(p, init, applyUpdate(p, init, st, u), Tail(q))

\* a setState callback that calls the operation's callback first
RECURSIVE callbackEvents_swapped(_)
callbackEvents_swapped(q) ==
  IF q = <<>> THEN <<>>
  ELSE <<Event(Head(q).id, callbackName(Head(q)), ""), Event(Head(q).id, "onStateChange", "")>>
       \o callbackEvents_swapped(Tail(q))

\* events of the setState callbacks of a queue, run in order
RECURSIVE callbackEvents(_)
callbackEvents(q) ==
  IF q = <<>> THEN <<>>
  ELSE <<Event(Head(q).id, "onStateChange", ""), Event(Head(q).id, callbackName(Head(q)), "")>>
       \o callbackEvents(Tail(q))

\* what each invocation of a queue computed and reported; committed is
\* this.state when the callbacks run
RECURSIVE invocationRecords(_, _, _, _, _, _)
invocationRecords(v, p, init, st, q, committed) ==
  IF q = <<>> THEN <<>>
  ELSE LET u == Head(q)
           c == allChangesOf(p, init, st, u)
           after == applyUpdate(p, init, st, u)
       IN <<[id |-> u.id, op |-> u.op, type |-> u.type,
             props |-> p,
             before |-> st,
             allChanges |-> c,
             stateToSet |-> removeControlled(p, st, c),
             after |-> after,
             onStateChangeArgs |-> [changes |-> c, state |-> committed],
             callback |-> callbackName(u),
             callbackArg |-> callbackArg(v, p, committed)]>>
          \o invocationRecords(v, p, init, after, Tail(q), committed)

----------------------------------------------------------------------------
\* getTogglerProps and callAll

\* callAll(...fns): the returned handler calls the fns that are not falsy
callAll(fns) == SelectSeq(fns, LAMBDA fn : fn # "undefined")

\* a getTogglerProps that spreads the overrides first
getTogglerProps_spreadFirst(p, st, overrides) ==
  LET onClick == IF "onClick" \in DOMAIN overrides THEN overrides["onClick"] ELSE "undefined"
      rest == Restrict(overrides, (DOMAIN overrides) \ {"onClick"})
  IN Spread(rest,
            Spread("onClick" :> callAll(<<onClick, "toggle">>),
                   "aria-expanded" :> getState(p, st).on))

getTogglerProps(p, st, overrides) ==
  LET onClick == IF "onClick" \in DOMAIN overrides THEN overrides["onClick"] ELSE "undefined"
      rest == Restrict(overrides, (DOMAIN overrides) \ {"onClick"})
  IN Spread(Spread("onClick" :> callAll(<<onClick, "toggle">>),
                   "aria-expanded" :> getState(p, st).on),
            rest)

Overrides ==
  { <<>>,
    "on" :> TRUE,
    "onClick" :> "f",
    ("onClick" :> "f") @@ ("data-x" :> 1),
    "aria-expanded" :> TRUE,
    "aria-expanded" :> FALSE }

\* calling a handler made by callAll with one argument
RECURSIVE invokeHandler(_, _, _)
invokeHandler(fns, arg, s) ==
  IF fns = <<>> THEN s
  ELSE IF Head(fns) = "toggle"
    THEN invokeHandler(Tail(fns), arg,
           [pending |-> Append(s.pending, [id |-> s.nextId, op |-> "toggle", type |-> stateChangeTypes.toggle]),
            trace |-> Append(s.trace, Event(s.nextId, "toggle()", "")),
            nextId |-> s.nextId + 1])
    ELSE invokeHandler(Tail(fns), arg,
           [s EXCEPT !.trace = Append(s.trace, Event(0, Head(fns), arg))])

----------------------------------------------------------------------------
\* Toggle: initial state and operations

PropsChoices ==
  { Spread(Spread(Spread(defaultProps, [initialOn |-> io, stateReducer |-> r]), o), h) :
      io \in BOOLEAN, r \in Reducers,
      o \in {<<>>, "on" :> TRUE, "on" :> FALSE},
      h \in {<<>>, [toggle |-> "ownerToggle", reset |-> "ownerReset", getTogglerProps |-> "ownerGetTogglerProps"]} }

initialStateOf(p) ==
  [on |-> p.initialOn, toggle |-> "toggle", reset |-> "reset",
   getTogglerProps |-> "getTogglerProps"]

InitPrimer ==
  /\ pState = [i \in 1..2 |-> FALSE]
  /\ bothOn = FALSE
  /\ pPending = [i \in 1..2 |-> 0]
  /\ pCalls = <<>>

InitToggle ==
  /\ variant \in Variants
  /\ props \in PropsChoices
  /\ initialState = initialStateOf(props)
  /\ state = initialState
  /\ pending = <<>>
  /\ nextId = 1
  /\ log = <<>>
  /\ trace = <<>>
  /\ togglerProps = <<>>

Init == InitToggle /\ InitPrimer

\* toggle({type}): queues the update
Toggle(type) ==
  /\ nextId <= MaxCalls
  /\ pending' = Append(pending, [id |-> nextId, op |-> "toggle", type |-> type])
  /\ trace' = Append(trace, Event(nextId, "toggle()", ""))
  /\ nextId' = nextId + 1
  /\ UNCHANGED <<variant, props, initialState, state, log, togglerProps, primerVars>>

\* reset(): queues the update
Reset ==
  /\ nextId <= MaxCalls
  /\ pending' = Append(pending, [id |-> nextId, op |-> "reset", type |-> stateChangeTypes.reset])
  /\ trace' = Append(trace, Event(nextId, "reset()", ""))
  /\ nextId' = nextId + 1
  /\ UNCHANGED <<variant, props, initialState, state, log, togglerProps, primerVars>>

\* React processes the queued updates: updaters, commit, callbacks
Flush ==
  /\ pending # <<>>
  /\ LET committed == processUpdateQueue(props, initialState, state, pending)
     IN /\ state' = committed
        /\ log' = log \o invocationRecords(variant, props, initialState, state, pending, committed)
        /\ trace' = trace \o updaterEvents(props, initialState, state, pending)
                          \o callbackEvents(pending)
  /\ pending' = <<>>
  /\ UNCHANGED <<variant, props, initialState, nextId, togglerProps, primerVars>>

\* getTogglerProps(overrides): keeps the result, with what it was computed from
GetTogglerProps(overrides) ==
  /\ togglerProps' = <<[overrides |-> overrides,
                        props |-> props,
                        state |-> state,
                        result |-> getTogglerProps(props, state, overrides)]>>
  /\ UNCHANGED <<variant, props, initialState, state, pending, nextId, log, trace, primerVars>>

\* the onClick of the last getTogglerProps result is called with arg
Click(arg) ==
  /\ togglerProps # <<>>
  /\ nextId <= MaxCalls
  /\ LET s == invokeHandler(togglerProps[1].result["onClick"], arg,
                            [pending |-> pending,
                             trace |-> Append(trace, Event(0, "onClick", arg)),
                             nextId |-> nextId])
     IN /\ pending' = s.pending
        /\ trace' = s.trace
        /\ nextId' = s.nextId
  /\ UNCHANGED <<variant, props, initialState, state, log, togglerProps, primerVars>>

\* the owner renders the Toggle again with another `on` prop
OwnerSetOn(o) ==
  /\ pending = <<>>
  /\ props' = Spread(Restrict(props, (DOMAIN props) \ {"on"}), o)
  /\ props' # props
  /\ UNCHANGED <<variant, initialState, state, pending, nextId, log, trace, togglerProps, primerVars>>

Next ==
  \/ \E type \in {stateChangeTypes.toggle, CustomType} : Toggle(type)
  \/ Reset
  \/ Flush

Spec == Init /\ [][Next]_vars

NextTogglerProps ==
  \/ \E overrides \in Overrides : GetTogglerProps(overrides)
  \/ \E arg \in ClickArgs : Click(arg)
  \/ Reset
  \/ Flush

InitTogglerProps ==
  /\ InitToggle
  /\ InitPrimer
  /\ props.stateReducer = "default"
  /\ DOMAIN props \cap HandleKeys = {}

SpecTogglerProps == InitTogglerProps /\ [][NextTogglerProps]_vars

NextOwner ==
  \/ \E type \in {stateChangeTypes.toggle, CustomType} : Toggle(type)
  \/ Reset
  \/ Flush
  \/ \E o \in {<<>>, "on" :> TRUE, "on" :> FALSE} : OwnerSetOn(o)

InitOwner ==
  /\ InitToggle
  /\ InitPrimer
  /\ props.stateReducer = "default"
  /\ DOMAIN props \cap HandleKeys = {}

SpecOwner == InitOwner /\ [][NextOwner]_vars

----------------------------------------------------------------------------
\* The control-props primer: Usage with two Toggles

\* Toggle.render: the `on` handed to <Switch>
primerRender(i) == pState[i]

\* the updater of Toggle.toggle, applied n times
RECURSIVE primerUpdates(_, _)
primerUpdates(on, n) == IF n = 0 THEN on ELSE primerUpdates(~on, n - 1)

\* n calls of a setState callback that reads this.state.on after the commit
RECURSIVE primerCallbackArgs(_, _)
primerCallbackArgs(on, n) == IF n = 0 THEN <<>> ELSE <<on>> \o primerCallbackArgs(on, n - 1)

\* Toggle i's toggle(): queues the update
PrimerToggle(i) ==
  /\ Len(pCalls) + pPending[1] + pPending[2] < MaxPrimerCalls
  /\ pPending' = [pPending EXCEPT ![i] = @ + 1]
  /\ UNCHANGED <<pState, bothOn, pCalls, toggleVars>>

\* React processes the queued updates of both Toggles, then their callbacks
\* (Toggle 1's before Toggle 2's), each calling Usage.handleToggle
PrimerFlush ==
  /\ pPending[1] + pPending[2] > 0
  /\ LET committed == [i \in 1..2 |-> primerUpdates(pState[i], pPending[i])]
         args == primerCallbackArgs(committed[1], pPending[1])
                 \o primerCallbackArgs(committed[2], pPending[2])
     IN /\ pState' = committed
        /\ pCalls' = pCalls \o args
        /\ bothOn' = args[Len(args)]
  /\ pPending' = [i \in 1..2 |-> 0]
  /\ UNCHANGED toggleVars

NextPrimer ==
  \/ \E i \in 1..2 : PrimerToggle(i)
  \/ PrimerFlush

InitPrimerSpec ==
  /\ InitToggle
  /\ InitPrimer
  /\ variant = "hoc"
  /\ props = defaultProps

SpecPrimer == InitPrimerSpec /\ [][NextPrimer]_vars

----------------------------------------------------------------------------
\* Helpers of the properties

\* the `on` a callback argument carries
argOn(a) == IF a.kind = "boolean" THEN a.value ELSE a.value.on

onControlled(p) == "on" \in DOMAIN p

\* is the number of toggle records after the last reset record odd
RECURSIVE OddTogglesSinceReset(_)
OddTogglesSinceReset(l) ==
  IF l = <<>> THEN FALSE
  ELSE IF l[Len(l)].op = "reset" THEN FALSE
  ELSE ~OddTogglesSinceReset(SubSeq(l, 1, Len(l) - 1))

\* the internal `on` last written while `on` was not controlled
RECURSIVE LastUncontrolledOn(_, _)
LastUncontrolledOn(l, init) ==
  IF l = <<>> THEN init.on
  ELSE IF ~onControlled(l[Len(l)].props) THEN l[Len(l)].after.on
  ELSE LastUncontrolledOn(SubSeq(l, 1, Len(l) - 1), init)

EventNames(evs) == [i \in 1..Len(evs) |-> evs[i].ev]

EventsOf(id) == EventNames(SelectSeq(trace, LAMBDA e : e.id = id))

----------------------------------------------------------------------------
\* C1: with `on` not supplied and the default stateReducer, once every
\* queued call is processed getState().on equals initialOn XOR (the number
\* of toggle() calls since the last reset(), or since construction, is odd);
\* so N toggles give initialOn XOR (N is odd) and a reset() gives initialOn.
C1_ToggleParity ==
  (~onControlled(props) /\ props.stateReducer = "default" /\ pending = <<>>)
    => getState(props, state).on = (props.initialOn # OddTogglesSinceReset(log))

C1_Witness ==
  /\ ~onControlled(props) /\ props.stateReducer = "default" /\ pending = <<>>
  /\ props.initialOn
  /\ Len(log) = 3
  /\ log[1].op = "toggle" /\ log[2].op = "reset" /\ log[3].op = "toggle"
  /\ ~getState(props, state).on

\* C2: with `on` supplied and fixed at true, getState().on is true in every
\* state, and every onToggle / onReset call carries on = true (the boolean
\* true itself in exercises-final/12.js).
C2_ControlledOnStaysTrue ==
  (onControlled(props) /\ props.on = TRUE)
    => /\ getState(props, state).on = TRUE
       /\ \A i \in 1..Len(log) :
            /\ argOn(log[i].callbackArg) = TRUE
            /\ variant = "hoc" => /\ log[i].callbackArg.kind = "boolean"
                                  /\ log[i].callbackArg.value = TRUE

C2_Witness ==
  /\ onControlled(props) /\ props.on = TRUE /\ variant = "hoc"
  /\ ~state.on
  /\ \E i, j \in 1..Len(log) :
       /\ log[i].op = "toggle" /\ log[i].callback = "onToggle"
       /\ log[j].op = "reset" /\ log[j].callback = "onReset"

\* C3: with `on` not supplied and a stateReducer that always returns
\* {on: true, type: changes.type}, the record the reducer returned is what
\* each toggle() writes, so the internal on and getState().on are true after
\* every toggle(), whatever the value was before.
C3_ReducerIsAuthoritative ==
  (~onControlled(props) /\ props.stateReducer = "alwaysOn")
    => /\ \A i \in 1..Len(log) :
            log[i].op = "toggle" =>
              /\ log[i].stateToSet.on = TRUE
              /\ getState(log[i].props, log[i].after).on = TRUE
       /\ (\E i \in 1..Len(log) : log[i].op = "toggle") => getState(props, state).on = TRUE

C3_Witness ==
  /\ ~onControlled(props) /\ props.stateReducer = "alwaysOn"
  /\ pending = <<>>
  /\ \E i \in 1..Len(log) :
       /\ log[i].op = "toggle"
       /\ log[i].before.on = TRUE
       /\ log[i].after.on = TRUE
  /\ getState(props, state).on = TRUE

C5_InternalAdvancesWhileControlled ==
  \A i \in 1..Len(log) :
    onControlled(log[i].props) => log[i].after.on = log[i].allChanges.on

\* C5 amended: while `on` is controlled, toggle() and reset() leave the
\* internally tracked `on` as it was (the controlled field is not in the
\* write set); once the owner stops supplying `on`, getState().on is the
\* internal value last written while `on` was not controlled (initialOn if
\* there was no such write).
C5_InternalKeptWhileControlled ==
  /\ \A i \in 1..Len(log) :
       onControlled(log[i].props) =>
         /\ "on" \notin DOMAIN log[i].stateToSet
         /\ log[i].after.on = log[i].before.on
  /\ ~onControlled(props) =>
       getState(props, state).on = LastUncontrolledOn(log, initialState)

C5_Witness ==
  /\ ~onControlled(props)
  /\ pending = <<>>
  /\ Len(log) >= 2
  /\ ~onControlled(log[1].props) /\ log[1].op = "toggle"
  /\ onControlled(log[Len(log)].props) /\ log[Len(log)].op = "toggle"
  /\ log[Len(log)].allChanges.on # log[Len(log)].after.on
  /\ getState(props, state).on = log[1].after.on

\* C6: onToggle and onReset are called with the post-apply, control-aware
\* `on` as a boolean, in the higher-order-component file and in the
\* provider-pattern file.
C6_CallbackGetsBoolean ==
  \A i \in 1..Len(log) :
    /\ log[i].callbackArg.kind = "boolean"
    /\ argOn(log[i].callbackArg) = getState(log[i].props, log[i].onStateChangeArgs.state).on

\* C7 as stated: updaters are not lost, and the onStateChange and the
\* onToggle / onReset of an invocation see the state that invocation wrote.
C7_CallbacksSeeOwnState ==
  \A i \in 1..Len(log) :
    /\ log[i].before = (IF i = 1 THEN initialState ELSE log[i - 1].after)
    /\ log[i].onStateChangeArgs.state = log[i].after
    /\ argOn(log[i].callbackArg) = getState(log[i].props, log[i].after).on

\* C7 amended: the updaters of calls issued back to back run one after the
\* other, each on the state the previous one wrote (two toggles restore
\* `on`), and each onStateChange gets its own invocation's change record;
\* but the state handed to onStateChange and the `on` handed to onToggle /
\* onReset are those committed after all the queued updates were applied.
C7_UpdatersChainedCallbacksSeeCommitted ==
  /\ [](\A i \in 1..Len(log) :
          /\ log[i].before = (IF i = 1 THEN initialState ELSE log[i - 1].after)
          /\ log[i].onStateChangeArgs.changes = log[i].allChanges)
  /\ [](log # <<>> => state = log[Len(log)].after)
  /\ [][\A i \in (Len(log) + 1)..Len(log') :
           /\ log'[i].onStateChangeArgs.state = state'
           /\ argOn(log'[i].callbackArg) = getState(props', state').on]_vars
  /\ [][(/\ Len(pending) = 2 /\ log' # log
         /\ pending[1].op = "toggle" /\ pending[2].op = "toggle"
         /\ ~onControlled(props) /\ props.stateReducer = "default")
          => state'.on = state.on]_vars

C7_Witness ==
  /\ ~onControlled(props) /\ props.stateReducer = "default"
  /\ Len(log) = 2 /\ pending = <<>>
  /\ log[1].op = "toggle" /\ log[2].op = "toggle"
  /\ log[2].before = log[1].after
  /\ log[1].onStateChangeArgs.state = log[2].after
  /\ log[1].onStateChangeArgs.state.on # log[1].after.on
  /\ state.on = initialState.on

\* the steps in which the onClick of the getTogglerProps result is called
IsClick == Len(trace') > Len(trace) /\ trace'[Len(trace) + 1].ev = "onClick"

ClickCallsOverrideThenToggle ==
  IsClick =>
    LET ov == togglerProps[1].overrides
        arg == trace'[Len(trace) + 1].arg
        new == SubSeq(trace', Len(trace) + 2, Len(trace'))
    IN /\ new = (IF "onClick" \in DOMAIN ov THEN <<Event(0, ov["onClick"], arg)>> ELSE <<>>)
                \o <<Event(nextId, "toggle()", "")>>
       /\ pending' = Append(pending, [id |-> nextId, op |-> "toggle", type |-> stateChangeTypes.toggle])
       /\ nextId' = nextId + 1

OnAtCall(t) == IF onControlled(t.props) THEN t.props.on ELSE t.state.on

OtherFieldsUnchanged(t) ==
  /\ DOMAIN t.result = (DOMAIN t.overrides) \cup {"onClick", "aria-expanded"}
  /\ \A k \in (DOMAIN t.overrides) \ {"onClick", "aria-expanded"} : t.result[k] = t.overrides[k]

\* C8 as stated: the result's 'aria-expanded' is the control-aware `on` at
\* the time of the call, whatever the overrides are.
C8_AriaExpandedIsOn ==
  togglerProps # <<>> =>
    /\ togglerProps[1].result["aria-expanded"] = OnAtCall(togglerProps[1])
    /\ OtherFieldsUnchanged(togglerProps[1])

\* C8 amended: the result's onClick calls overrides.onClick (if present) with
\* the same arguments and then toggle() exactly once; every field of
\* overrides other than onClick appears unchanged, 'aria-expanded' included;
\* 'aria-expanded' is the control-aware `on` at the time of the call only
\* when overrides has no 'aria-expanded' of its own.
C8_TogglerProps ==
  /\ [](togglerProps # <<>> =>
          LET t == togglerProps[1]
          IN /\ OtherFieldsUnchanged(t)
             /\ t.result["aria-expanded"] =
                  (IF "aria-expanded" \in DOMAIN t.overrides
                     THEN t.overrides["aria-expanded"] ELSE OnAtCall(t)))
  /\ [][ClickCallsOverrideThenToggle]_vars

C8_Witness ==
  /\ togglerProps # <<>>
  /\ DOMAIN togglerProps[1].overrides = {"onClick", "data-x"}
  /\ togglerProps[1].result["data-x"] = 1
  /\ togglerProps[1].result["aria-expanded"] = TRUE
  /\ ~togglerProps[1].props.initialOn
  /\ \E i \in 1..(Len(trace) - 2) :
       /\ trace[i].ev = "onClick" /\ trace[i].arg = "event2"
       /\ trace[i + 1].ev = "f" /\ trace[i + 1].arg = "event2"
       /\ trace[i + 2].ev = "toggle()"

\* C9: every processed toggle() / reset() produced, in this order, one
\* stateReducer call, the internal write unless the write set is empty, one
\* onStateChange with the reducer's record, and one onToggle (toggle) or
\* onReset (reset); a call still queued has produced none of them.
C9_EventOrder ==
  /\ \A i \in 1..Len(log) :
       /\ log[i].id = i
       /\ EventsOf(i) =
            <<log[i].op \o "()", "stateReducer">>
            \o (IF DOMAIN log[i].stateToSet # {} THEN <<"setState">> ELSE <<>>)
            \o <<"onStateChange", IF log[i].op = "toggle" THEN "onToggle" ELSE "onReset">>
       /\ log[i].onStateChangeArgs.changes = log[i].allChanges
  /\ \A j \in 1..Len(pending) :
       EventsOf(pending[j].id) = <<pending[j].op \o "()">>

C9_Witness ==
  /\ pending = <<>>
  /\ \E i, j \in 1..Len(log) :
       /\ log[i].op = "toggle" /\ DOMAIN log[i].stateToSet = {}
       /\ log[j].op = "reset" /\ log[j].after = log[j].before
  /\ trace[Len(trace)].ev \in {"onToggle", "onReset"}

\* C10: in the primer's Usage, once the queued updates are processed, the
\* `on` each of the two Toggles renders equals Usage's bothOn.
C10_TogglesFollowBothOn ==
  (pPending[1] + pPending[2] = 0) => \A i \in 1..2 : primerRender(i) = bothOn

TypeOK ==
  /\ variant \in Variants
  /\ nextId \in 1..(MaxCalls + 1)
  /\ DOMAIN state = StateKeys
  /\ state.on \in BOOLEAN
  /\ Len(pending) + Len(log) = nextId - 1
====
